---- MODULE Spec2Model ----
(***************************************************************************)
(* A model of the Insider acceptance-test harness                          *)
(* (src/Insider-test-success.py).                                          *)
(*                                                                         *)
(* Python exceptions are modelled as a third return value: every modelled  *)
(* function returns a record whose field ret is "true", "false" or         *)
(* "raise".  The selenium driver and WebDriverWait are the environment:    *)
(* each driver call either succeeds or raises, the choice being an input   *)
(* of the action that makes the call.                                      *)
(***************************************************************************)
EXTENDS Integers, Sequences, FiniteSets, TLC

(***************************************************************************)
(* Bounds of the model                                                     *)
(***************************************************************************)
\* the largest number of browsing contexts the browser is let to hold
MaxWindows == 2
\* the largest retry_attempts safe_click is applied to in SpecClick
MaxAttempts == 3
\* the latest time a waited-for condition starts to hold in SpecWait
MaxTime == 3
\* the largest timeout override a wait is given in SpecWait
MaxTimeout == 3
\* NODE_COUNT is drawn from -MaxNodeInput..MaxNodeInput in SpecK8s
MaxNodeInput == 10

(***************************************************************************)
(* Program constants                                                       *)
(***************************************************************************)
\* BasePage.__init__(timeout = 20)
DEFAULT_TIMEOUT == 20
\* safe_click(retry_attempts = 10)
DEFAULT_RETRY_ATTEMPTS == 10

\* class TestResult(Enum)
TestResult == {"PASSED", "FAILED", "SKIPPED"}

\* the keys test_homepage_loading / test_qa_jobs_filtering write
HomepageKey == "Homepage Test"
QAKey == "QA Jobs Test"

\* the declared step lists of the two cases (TestStep.name)
HomepageSteps == <<"navigate", "verify", "company_menu", "careers_menu">>
QASteps == <<"navigate", "cookies", "qa_jobs", "location", "department", "view_role">>

(***************************************************************************)
(* The environment's answers                                               *)
(***************************************************************************)
\* element.click(): done, ElementClickInterceptedException, another exception
ClickOutcomes == {"ok", "intercepted", "error"}
\* any other driver call: done, or an exception
CallOutcomes == {"ok", "raise"}
\* WebDriverWait.until: the value, TimeoutException, another exception
WaitOutcomes == {"ok", "timeout", "error"}

VARIABLES
    pc,            \* run_tests' position: the case running, "report", "teardown", "done"
    idx,           \* index (from 1) of the next step of the running case
    executed,      \* per case, the steps run so far, each with what it returned
    last,          \* the step run last: its value, and the session before and after
    test_results,  \* InsiderWebsiteTest.test_results, a dict in insertion order
    writes,        \* how many times each key of test_results was assigned
    driver,        \* the session: its open window handles and the active one
    quits,         \* number of driver.quit() calls
    report,        \* the result lines run_tests logged
    sc,            \* SpecClick: safe_click's arguments and result
    wt,            \* SpecWait: a polling wait's arguments and result
    k8             \* SpecK8s: the provisioning process of KubernetesTestController

vars == <<pc, idx, executed, last, test_results, writes, driver, quits, report, sc, wt, k8>>
runVars == <<pc, idx, executed, last, test_results, writes, driver, quits, report>>

(***************************************************************************)
(* Wait/retry primitives (BasePage)                                        *)
(***************************************************************************)
\* an Optional[int] timeout argument: None, or an integer
NoOverride == [some |-> FALSE, v |-> 0]
Override(v) == [some |-> TRUE, v |-> v]

\* a mutant of EffectiveTimeout: the override is used whenever it is given
EffectiveTimeoutAsGiven(timeout, self_timeout) ==
    IF timeout.some THEN timeout.v ELSE self_timeout

\* `timeout or self.timeout`: Python's `or` yields self.timeout when timeout
\* is None and also when it is 0
EffectiveTimeout(timeout, self_timeout) ==
    IF timeout.some /\ timeout.v # 0 THEN timeout.v ELSE self_timeout

\* A condition over the page: it never holds, or it holds from time `at` on.
Cond(holds, at) == [holds |-> holds, at |-> at]
CondAt(cond, t) == cond.holds /\ t >= cond.at

\* WebDriverWait(driver, timeout).until(condition): the condition is polled
\* from time 0, once per time unit, while the time is within the timeout; a
\* driver exception other than the ignored ones leaves the wait as it is.
RECURSIVE Poll(_, _, _)
Poll(cond, timeout, t) ==
    IF CondAt(cond, t) THEN "ok"
    ELSE IF t + 1 > timeout THEN "timeout"
    ELSE Poll(cond, timeout, t + 1)

WebDriverWait_until(timeout, cond, err) ==
    IF err THEN "error" ELSE Poll(cond, timeout, 0)

\* a mutant of OnTimeout: the TimeoutException is let through
OnTimeoutRaise == "raise"

\* `except TimeoutException: return False`
OnTimeout == "false"

\* is_element_visible(by, locator, timeout)
is_element_visible(timeout, self_timeout, cond, err) ==
    LET w == WebDriverWait_until(EffectiveTimeout(timeout, self_timeout), cond, err)
    IN  CASE w = "ok" -> "true"
          [] w = "timeout" -> OnTimeout
          [] OTHER -> "raise"

\* wait_for_url_contains(partial_url, timeout)
wait_for_url_contains(timeout, self_timeout, cond, err) ==
    LET w == WebDriverWait_until(EffectiveTimeout(timeout, self_timeout), cond, err)
    IN  CASE w = "ok" -> "true"
          [] w = "timeout" -> OnTimeout
          [] OTHER -> "raise"

\* find_element: the element, or the wait's exception
find_element(timeout, self_timeout, cond, err) ==
    LET w == WebDriverWait_until(EffectiveTimeout(timeout, self_timeout), cond, err)
    IN  IF w = "ok" THEN "ok" ELSE "raise"

\* find_clickable: the element, or the wait's exception
find_clickable(timeout, self_timeout, cond, err) ==
    LET w == WebDriverWait_until(EffectiveTimeout(timeout, self_timeout), cond, err)
    IN  IF w = "ok" THEN "ok" ELSE "raise"

\* a mutant of LoopDone: the last attempt is never made
LoopDoneOneShort(attempt, retry_attempts) == attempt >= retry_attempts - 1

\* `for attempt in range(retry_attempts)`: the loop is over
LoopDone(attempt, retry_attempts) == attempt >= retry_attempts

\* a mutant of OnIntercepted: the obstruction is re-raised on the last attempt
OnInterceptedReraise(attempt, retry_attempts) ==
    IF attempt = retry_attempts - 1 THEN "raise" ELSE "continue"

\* `except ElementClickInterceptedException`: log, scroll, go on to the next
\* attempt; nothing is re-raised
OnIntercepted(attempt, retry_attempts) == "continue"

\* a mutant of OnOtherException: the error is raised at once
OnOtherExceptionAtOnce(attempt, retry_attempts) == "raise"

\* `except Exception`: log; `if attempt == retry_attempts - 1: raise`
OnOtherException(attempt, retry_attempts) ==
    IF attempt = retry_attempts - 1 THEN "raise" ELSE "continue"

\* a mutant of ExhaustedResult
ExhaustedResultTrue == "true"

\* the value safe_click returns once the loop is over
ExhaustedResult == "false"

\* safe_click's account: its return, the exception that left it ("none",
\* "click", "scroll"), and the calls it made
SafeClickStart ==
    [ret |-> "none", exc |-> "none", clicks |-> 0, scrolls |-> 0, sleeps |-> 0]

\* safe_click(element, retry_attempts): clicks[i] and scrolls[i] are the
\* environment's answers to the i-th element.click() and to the execute_script
\* that follows it; attempt counts from 0 as in the source
RECURSIVE safe_click_from(_, _, _, _, _)
safe_click_from(clicks, scrolls, retry_attempts, attempt, acc) ==
    IF LoopDone(attempt, retry_attempts)
    THEN [acc EXCEPT !.ret = ExhaustedResult]
    ELSE LET a1 == [acc EXCEPT !.sleeps = @ + (IF attempt > 0 THEN 1 ELSE 0),
                               !.clicks = @ + 1]
             c == clicks[attempt + 1]
         IN  CASE c = "ok" -> [a1 EXCEPT !.ret = "true"]
               [] c = "intercepted" ->
                    LET a2 == [a1 EXCEPT !.scrolls = @ + 1]
                    IN  IF scrolls[attempt + 1] = "raise"
                        THEN [a2 EXCEPT !.ret = "raise", !.exc = "scroll"]
                        ELSE IF OnIntercepted(attempt, retry_attempts) = "raise"
                        THEN [a2 EXCEPT !.ret = "raise", !.exc = "click"]
                        ELSE safe_click_from(clicks, scrolls, retry_attempts,
                                             attempt + 1, a2)
               [] OTHER ->
                    IF OnOtherException(attempt, retry_attempts) = "raise"
                    THEN [a1 EXCEPT !.ret = "raise", !.exc = "click"]
                    ELSE safe_click_from(clicks, scrolls, retry_attempts,
                                         attempt + 1, a1)

safe_click(clicks, scrolls, retry_attempts) ==
    safe_click_from(clicks, scrolls, retry_attempts, 0, SafeClickStart)

(***************************************************************************)
(* The session: the browser's open contexts and the active one             *)
(***************************************************************************)
Handles == 1..MaxWindows

\* the handle the browser gives the next context it opens
NewHandle(windows) == CHOOSE h \in Handles \ windows : \A g \in Handles \ windows : h <= g

\* element.click() done: the page may answer by opening a new context
\* (a link with a target), which does not change the active one
ClickEffect(d, clicked, opens) ==
    IF clicked /\ opens /\ Cardinality(d.windows) < MaxWindows
    THEN [d EXCEPT !.windows = @ \cup {NewHandle(@)}]
    ELSE d

(***************************************************************************)
(* The environment's answers within a run.  Every page object is built     *)
(* with the default timeout and no caller passes an override or            *)
(* retry_attempts, so waits last DEFAULT_TIMEOUT and safe_click makes at   *)
(* most DEFAULT_RETRY_ATTEMPTS attempts.                                   *)
(***************************************************************************)
\* a wait's condition holds at once, or never; or the driver raises
RunWaits ==
    {[cond |-> Cond(TRUE, 0), err |-> FALSE],
     [cond |-> Cond(FALSE, 0), err |-> FALSE],
     [cond |-> Cond(FALSE, 0), err |-> TRUE]}

\* j answers a, then b for the rest
Script(j, a, b) == [i \in 1..DEFAULT_RETRY_ATTEMPTS |-> IF i <= j THEN a ELSE b]

AllOk == Script(0, "ok", "ok")
LastAttempt(a, b) == Script(DEFAULT_RETRY_ATTEMPTS - 1, a, b)

\* the answers to one safe_click call: to its clicks, to its scrolls, and
\* whether a click that is done opens a new context
ClickEnv(clicks, scrolls, opens) ==
    [clicks |-> clicks, scrolls |-> scrolls, opens |-> opens]

RunClickEnvs ==
    {ClickEnv(AllOk, AllOk, FALSE),
     ClickEnv(AllOk, AllOk, TRUE),
     ClickEnv(LastAttempt("intercepted", "ok"), AllOk, FALSE),
     ClickEnv(Script(0, "intercepted", "intercepted"), AllOk, FALSE),
     ClickEnv(Script(0, "intercepted", "intercepted"), Script(0, "raise", "raise"), FALSE),
     ClickEnv(LastAttempt("error", "intercepted"), AllOk, FALSE),
     ClickEnv(Script(0, "error", "error"), AllOk, FALSE)}

(***************************************************************************)
(* Page operations.  Each gives [ret, driver, clicked, obs]: what it       *)
(* returned, the session after it, the number of clicks that were done,    *)
(* and what it observed.                                                   *)
(***************************************************************************)
OpResult(ret, d, clicked, obs) ==
    [ret |-> ret, driver |-> d, clicked |-> clicked, obs |-> obs]

\* HomePage.is_loaded: all([is_element_visible(logo)]); is_element_visible
\* has already turned a TimeoutException into False, and any other exception
\* passes the `except TimeoutException` here
HomePage_is_loaded(w) ==
    is_element_visible(NoOverride, DEFAULT_TIMEOUT, w.cond, w.err)

\* what the wait for the logo met
LogoObs(w) ==
    LET u == WebDriverWait_until(DEFAULT_TIMEOUT, w.cond, w.err)
    IN  CASE u = "ok" -> "logo_visible"
          [] u = "timeout" -> "logo_never_visible"
          [] OTHER -> "logo_error"

\* a mutant of HomePage_navigate: True once driver.get is done, as
\* CareersPage.navigate has it
HomePage_navigate_unverified(d, get, w) ==
    IF get = "raise" THEN OpResult("false", d, 0, "get_failed")
    ELSE OpResult("true", d, 0, LogoObs(w))

\* HomePage.navigate: driver.get(URL); return is_loaded(); except Exception: False
HomePage_navigate(d, get, w) ==
    IF get = "raise" THEN OpResult("false", d, 0, "get_failed")
    ELSE LET r == HomePage_is_loaded(w)
         IN  OpResult(IF r = "raise" THEN "false" ELSE r, d, 0, LogoObs(w))

\* the step "verify" is HomePage.is_loaded itself
HomePage_verify(d, w) == OpResult(HomePage_is_loaded(w), d, 0, LogoObs(w))

\* a mutant of NavigationClickReturn: safe_click's value is returned
NavigationClickReturnValue(s) == s.ret

\* click_navigation_item: `self.safe_click(element); return True`
NavigationClickReturn(s) == "true"

\* HomePage.click_navigation_item(locator_key)
click_navigation_item(d, f, c) ==
    IF find_clickable(NoOverride, DEFAULT_TIMEOUT, f.cond, f.err) = "raise"
    THEN OpResult("false", d, 0, "not_clickable")
    ELSE LET s == safe_click(c.clicks, c.scrolls, DEFAULT_RETRY_ATTEMPTS)
         IN  IF s.ret = "raise"
             THEN OpResult("false", d, 0, "click_raised")
             ELSE OpResult(NavigationClickReturn(s),
                           ClickEffect(d, s.ret = "true", c.opens),
                           IF s.ret = "true" THEN 1 ELSE 0,
                           IF s.ret = "true" THEN "clicked" ELSE "never_clicked")

\* a mutant of CareersPage_navigate: True also when driver.get raised
CareersPage_navigate_unguarded(d, get) ==
    OpResult("true", d, 0, IF get = "raise" THEN "get_failed" ELSE "got")

\* CareersPage.navigate: driver.get(URL); return True; except Exception: False
CareersPage_navigate(d, get) ==
    IF get = "raise" THEN OpResult("false", d, 0, "get_failed")
    ELSE OpResult("true", d, 0, "got")

\* accept_cookies and click_see_all_qa_jobs:
\* `button = find_clickable(..); return self.safe_click(button)`
click_button(d, f, c) ==
    IF find_clickable(NoOverride, DEFAULT_TIMEOUT, f.cond, f.err) = "raise"
    THEN OpResult("false", d, 0, "not_clickable")
    ELSE LET s == safe_click(c.clicks, c.scrolls, DEFAULT_RETRY_ATTEMPTS)
         IN  IF s.ret = "raise"
             THEN OpResult("false", d, 0, "click_raised")
             ELSE OpResult(s.ret, ClickEffect(d, s.ret = "true", c.opens),
                           IF s.ret = "true" THEN 1 ELSE 0,
                           IF s.ret = "true" THEN "clicked" ELSE "never_clicked")

\* select_location and select_department: two find_clickable + safe_click
\* pairs whose values are dropped, then `return True`
select_filter(d, f1, c1, f2, c2) ==
    IF find_clickable(NoOverride, DEFAULT_TIMEOUT, f1.cond, f1.err) = "raise"
    THEN OpResult("false", d, 0, "control_not_clickable")
    ELSE LET s1 == safe_click(c1.clicks, c1.scrolls, DEFAULT_RETRY_ATTEMPTS)
             n1 == IF s1.ret = "true" THEN 1 ELSE 0
             d1 == ClickEffect(d, s1.ret = "true", c1.opens)
         IN  IF s1.ret = "raise"
             THEN OpResult("false", d, 0, "control_click_raised")
             ELSE IF find_clickable(NoOverride, DEFAULT_TIMEOUT, f2.cond, f2.err) = "raise"
             THEN OpResult("false", d1, n1, "option_not_clickable")
             ELSE LET s2 == safe_click(c2.clicks, c2.scrolls, DEFAULT_RETRY_ATTEMPTS)
                      n2 == IF s2.ret = "true" THEN 1 ELSE 0
                  IN  IF s2.ret = "raise"
                      THEN OpResult("false", d1, n1, "option_click_raised")
                      ELSE OpResult("true", ClickEffect(d1, s2.ret = "true", c2.opens),
                                    n1 + n2,
                                    CASE n1 = 1 /\ n2 = 1 -> "both_clicked"
                                      [] n1 = 1 /\ n2 = 0 -> "option_never_clicked"
                                      [] n1 = 0 /\ n2 = 1 -> "control_never_clicked"
                                      [] OTHER -> "neither_clicked")

\* the driver calls of view_first_role that are not waits or clicks, any one
\* of which may raise
ViewRoleCalls ==
    {"current_window_handle", "window_handles", "window_handles_again",
     "switch_to_new", "close", "switch_to_original"}

\* a mutant of UrlMismatchExit: the new context is left before returning
UrlMismatchExitRestoring(d, original) == [d EXCEPT !.current = original]

\* `if not self.wait_for_url_contains("jobs.lever.co"): return False`:
\* the session is left as it is, the new context active
UrlMismatchExit(d, original) == d

\* a mutant of ContextsBeforeClickOk: the guard is dropped
ContextsBeforeClickAny(d) == TRUE

\* `if len(self.driver.window_handles) != 1: return False`, negated
ContextsBeforeClickOk(d) == Cardinality(d.windows) = 1

\* CareersPage.view_first_role.  find is what find_elements gave ("none",
\* "some", "raise"), failAt the call of ViewRoleCalls that raises ("none":
\* no call does), c the answers to safe_click, werr whether the wait for a
\* second context meets a driver error, u the answers to the wait for the
\* address
view_first_role(d, find, failAt, c, werr, u) ==
    IF find = "raise" THEN OpResult("false", d, 0, "find_raised")
    ELSE IF find = "none" THEN OpResult("false", d, 0, "no_buttons")
    ELSE IF failAt \in {"current_window_handle", "window_handles"}
    THEN OpResult("false", d, 0, "handles_raised")
    ELSE LET original == d.current IN
    IF ~ContextsBeforeClickOk(d) THEN OpResult("false", d, 0, "multiple_contexts")
    ELSE LET s == safe_click(c.clicks, c.scrolls, DEFAULT_RETRY_ATTEMPTS)
             n == IF s.ret = "true" THEN 1 ELSE 0
             d1 == ClickEffect(d, s.ret = "true", c.opens)
             w == WebDriverWait_until(DEFAULT_TIMEOUT,
                                      Cond(Cardinality(d1.windows) > 1, 0), werr)
         IN
    IF s.ret = "raise" THEN OpResult("false", d, 0, "click_raised")
    ELSE IF w = "timeout" THEN OpResult("false", d1, n, "no_new_context")
    ELSE IF w = "error" THEN OpResult("false", d1, n, "context_wait_raised")
    ELSE IF failAt = "window_handles_again"
    THEN OpResult("false", d1, n, "handles_again_raised")
    ELSE LET new_window == CHOOSE h \in d1.windows \ {original} :
                               \A g \in d1.windows \ {original} : h <= g
             d2 == [d1 EXCEPT !.current = new_window]
             url == wait_for_url_contains(NoOverride, DEFAULT_TIMEOUT, u.cond, u.err)
             d3 == [d2 EXCEPT !.windows = @ \ {d2.current}]
         IN
    IF failAt = "switch_to_new" THEN OpResult("false", d1, n, "switch_raised")
    ELSE IF url = "raise" THEN OpResult("false", d2, n, "url_wait_raised")
    ELSE IF url = "false" THEN OpResult("false", UrlMismatchExit(d2, original), n, "wrong_url")
    ELSE IF failAt = "close" THEN OpResult("false", d2, n, "close_raised")
    ELSE IF failAt = "switch_to_original"
    THEN OpResult("false", d3, n, "switch_back_raised")
    ELSE OpResult("true", [d3 EXCEPT !.current = original], n, "verified")

(***************************************************************************)
(* The test run controller (InsiderWebsiteTest, run_tests)                 *)
(***************************************************************************)
\* test_results[k] = v on a dict: a new key goes last, a key already there
\* keeps its place
DictSet(dict, k, v) ==
    IF \E i \in DOMAIN dict : dict[i].name = k
    THEN [i \in DOMAIN dict |->
            IF dict[i].name = k THEN [name |-> k, result |-> v] ELSE dict[i]]
    ELSE Append(dict, [name |-> k, result |-> v])

DictKeys(dict) == [i \in DOMAIN dict |-> dict[i].name]

\* a mutant of run_test_step: the exception escapes
run_test_step_uncaught(ret) == ret

\* run_test_step: the step's value, and False for an exception
run_test_step(ret) == IF ret = "raise" THEN "false" ELSE ret

CaseKey(case) == IF case = "homepage" THEN HomepageKey ELSE QAKey
CaseSteps(case) == IF case = "homepage" THEN HomepageSteps ELSE QASteps

\* run_tests: what follows a case that returned
AfterCase(case) == IF case = "homepage" THEN "qa" ELSE "report"

\* a mutant of FailedVerdict
FailedVerdictSkipped == "SKIPPED"

\* `self.test_results[..] = TestResult.FAILED`
FailedVerdict == "FAILED"

\* a mutant of AfterFailedStep: the loop goes on after a failed step
AfterFailedStepGoOn(case, i) ==
    IF i < Len(CaseSteps(case)) THEN [pc |-> case, idx |-> i + 1]
    ELSE [pc |-> AfterCase(case), idx |-> 1]

\* `return False` after a failed step: the case is over
AfterFailedStep(case, i) == [pc |-> AfterCase(case), idx |-> 1]

\* One turn of the loop `for step in steps` of a test case, for the step's
\* outcome r: run_test_step, and then the verdict if the case ends here.
\* An exception that run_test_step let through would leave the case and
\* run_tests' try block for its finally.
FinishStep(case, r) ==
    LET name == CaseSteps(case)[idx]
        res == run_test_step(r.ret)
        rec == [name |-> name, ret |-> r.ret, obs |-> r.obs]
    IN  /\ executed' = [executed EXCEPT ![case] = Append(@, rec)]
        /\ last' = [case |-> case, name |-> name, ret |-> r.ret, obs |-> r.obs,
                    clicked |-> r.clicked, pre |-> driver, post |-> r.driver]
        /\ driver' = r.driver
        /\ UNCHANGED <<quits, report>>
        /\ CASE res = "raise" ->
                  /\ pc' = "teardown_raised"
                  /\ idx' = 1
                  /\ UNCHANGED <<test_results, writes>>
             [] res = "false" ->
                  /\ test_results' = DictSet(test_results, CaseKey(case), FailedVerdict)
                  /\ writes' = [writes EXCEPT ![CaseKey(case)] = @ + 1]
                  /\ pc' = AfterFailedStep(case, idx).pc
                  /\ idx' = AfterFailedStep(case, idx).idx
             [] res = "true" /\ idx = Len(CaseSteps(case)) ->
                  /\ test_results' = DictSet(test_results, CaseKey(case), "PASSED")
                  /\ writes' = [writes EXCEPT ![CaseKey(case)] = @ + 1]
                  /\ pc' = AfterCase(case)
                  /\ idx' = 1
             [] OTHER ->
                  /\ pc' = case
                  /\ idx' = idx + 1
                  /\ UNCHANGED <<test_results, writes>>

AtStep(case, name) == pc = case /\ CaseSteps(case)[idx] = name

\* test_homepage_loading's steps
HomeNavigate ==
    /\ AtStep("homepage", "navigate")
    /\ \E get \in CallOutcomes, w \in RunWaits :
           FinishStep("homepage", HomePage_navigate(driver, get, w))
    /\ UNCHANGED <<sc, wt, k8>>

HomeVerify ==
    /\ AtStep("homepage", "verify")
    /\ \E w \in RunWaits : FinishStep("homepage", HomePage_verify(driver, w))
    /\ UNCHANGED <<sc, wt, k8>>

HomeCompanyMenu ==
    /\ AtStep("homepage", "company_menu")
    /\ \E f \in RunWaits, c \in RunClickEnvs :
           FinishStep("homepage", click_navigation_item(driver, f, c))
    /\ UNCHANGED <<sc, wt, k8>>

HomeCareersMenu ==
    /\ AtStep("homepage", "careers_menu")
    /\ \E f \in RunWaits, c \in RunClickEnvs :
           FinishStep("homepage", click_navigation_item(driver, f, c))
    /\ UNCHANGED <<sc, wt, k8>>

\* test_qa_jobs_filtering's steps
QANavigate ==
    /\ AtStep("qa", "navigate")
    /\ \E get \in CallOutcomes : FinishStep("qa", CareersPage_navigate(driver, get))
    /\ UNCHANGED <<sc, wt, k8>>

QACookies ==
    /\ AtStep("qa", "cookies")
    /\ \E f \in RunWaits, c \in RunClickEnvs : FinishStep("qa", click_button(driver, f, c))
    /\ UNCHANGED <<sc, wt, k8>>

QAJobs ==
    /\ AtStep("qa", "qa_jobs")
    /\ \E f \in RunWaits, c \in RunClickEnvs : FinishStep("qa", click_button(driver, f, c))
    /\ UNCHANGED <<sc, wt, k8>>

QALocation ==
    /\ AtStep("qa", "location")
    /\ \E f1 \in RunWaits, c1 \in RunClickEnvs, f2 \in RunWaits, c2 \in RunClickEnvs :
           FinishStep("qa", select_filter(driver, f1, c1, f2, c2))
    /\ UNCHANGED <<sc, wt, k8>>

QADepartment ==
    /\ AtStep("qa", "department")
    /\ \E f1 \in RunWaits, c1 \in RunClickEnvs, f2 \in RunWaits, c2 \in RunClickEnvs :
           FinishStep("qa", select_filter(driver, f1, c1, f2, c2))
    /\ UNCHANGED <<sc, wt, k8>>

QAViewRole ==
    /\ AtStep("qa", "view_role")
    /\ \E find \in {"none", "some", "raise"}, failAt \in ViewRoleCalls \cup {"none"},
          c \in RunClickEnvs, werr \in BOOLEAN, u \in RunWaits :
           FinishStep("qa", view_first_role(driver, find, failAt, c, werr, u))
    /\ UNCHANGED <<sc, wt, k8>>

\* a mutant of Glyph: the pass glyph whatever the verdict
GlyphAlwaysPass(result) == "pass"

\* the glyph of a report line
Glyph(result) == IF result = "PASSED" THEN "pass" ELSE "fail"

\* run_tests: `for test_name, result in test.test_results.items()`: a line each
Report ==
    /\ pc = "report"
    /\ report' = [i \in DOMAIN test_results |->
                    [name |-> test_results[i].name, verdict |-> test_results[i].result,
                     glyph |-> Glyph(test_results[i].result)]]
    /\ pc' = "teardown"
    /\ UNCHANGED <<idx, executed, last, test_results, writes, driver, quits, sc, wt, k8>>

\* a mutant of teardown: the session is not ended
teardown_without_quit(n) == n

\* InsiderWebsiteTest.teardown: the object always has its driver, so
\* driver.quit() is called: n counts the calls
teardown(n) == n + 1

\* run_tests' finally: test.teardown(), which ends the session with
\* driver.quit(); an exception of quit, or one that came through the try
\* block, leaves run_tests
Teardown ==
    /\ pc \in {"teardown", "teardown_raised"}
    /\ \E q \in CallOutcomes :
         /\ quits' = teardown(quits)
         /\ driver' = IF q = "ok" THEN [driver EXCEPT !.windows = {}] ELSE driver
         /\ pc' = IF q = "ok" /\ pc = "teardown" THEN "done" ELSE "raised"
    /\ UNCHANGED <<idx, executed, last, test_results, writes, report, sc, wt, k8>>

\* the state run_tests is in once InsiderWebsiteTest is built: a session
\* with one context, no verdicts
Init ==
    /\ pc = "homepage"
    /\ idx = 1
    /\ executed = [case \in {"homepage", "qa"} |-> <<>>]
    /\ last = [case |-> "none"]
    /\ test_results = <<>>
    /\ writes = [k \in {HomepageKey, QAKey} |-> 0]
    /\ driver = [windows |-> {1}, current |-> 1]
    /\ quits = 0
    /\ report = <<>>
    /\ sc = [phase |-> "idle"]
    /\ wt = [phase |-> "idle"]
    /\ k8 = [phase |-> "idle"]

Next ==
    \/ HomeNavigate
    \/ HomeVerify
    \/ HomeCompanyMenu
    \/ HomeCareersMenu
    \/ QANavigate
    \/ QACookies
    \/ QAJobs
    \/ QALocation
    \/ QADepartment
    \/ QAViewRole
    \/ Report
    \/ Teardown

Spec == Init /\ [][Next]_vars

(***************************************************************************)
(* SpecClick: safe_click applied to every script of at most MaxAttempts    *)
(* attempts.  SpecWait: the waits applied to every override up to          *)
(* MaxTimeout and every condition that starts to hold by MaxTime or never  *)
(* does.  No run is under way in either.                                   *)
(***************************************************************************)
NoRun ==
    /\ pc = "idle"
    /\ idx = 1
    /\ executed = [case \in {"homepage", "qa"} |-> <<>>]
    /\ last = [case |-> "none"]
    /\ test_results = <<>>
    /\ writes = [k \in {HomepageKey, QAKey} |-> 0]
    /\ driver = [windows |-> {1}, current |-> 1]
    /\ quits = 0
    /\ report = <<>>

ScInputs ==
    UNION {[phase : {"input"}, K : {k}, clicks : [1..k -> ClickOutcomes],
            scrolls : [1..k -> CallOutcomes], res : {SafeClickStart}] :
           k \in 0..MaxAttempts}

InitClick ==
    /\ NoRun
    /\ sc \in ScInputs
    /\ wt = [phase |-> "idle"]
    /\ k8 = [phase |-> "idle"]

SafeClickCall ==
    /\ sc.phase = "input"
    /\ sc' = [sc EXCEPT !.phase = "done",
                        !.res = safe_click(sc.clicks, sc.scrolls, sc.K)]
    /\ UNCHANGED <<runVars, wt, k8>>

SpecClick == InitClick /\ [][SafeClickCall]_vars

WaitOps == {"find_element", "find_clickable", "is_element_visible", "wait_for_url_contains"}

Timeouts == {NoOverride} \cup {Override(v) : v \in 0..MaxTimeout}

Conds == {Cond(FALSE, 0)} \cup {Cond(TRUE, t) : t \in 0..MaxTime}

WtInputs ==
    [phase : {"input"}, op : WaitOps, timeout : Timeouts, cond : Conds,
     err : BOOLEAN, ret : {"none"}, effective : {0}]

InitWait ==
    /\ NoRun
    /\ sc = [phase |-> "idle"]
    /\ wt \in WtInputs
    /\ k8 = [phase |-> "idle"]

WaitDone(ret) ==
    /\ wt' = [wt EXCEPT !.phase = "done", !.ret = ret,
                        !.effective = EffectiveTimeout(wt.timeout, DEFAULT_TIMEOUT)]
    /\ UNCHANGED <<runVars, sc, k8>>

FindElementCall ==
    /\ wt.phase = "input" /\ wt.op = "find_element"
    /\ WaitDone(find_element(wt.timeout, DEFAULT_TIMEOUT, wt.cond, wt.err))

FindClickableCall ==
    /\ wt.phase = "input" /\ wt.op = "find_clickable"
    /\ WaitDone(find_clickable(wt.timeout, DEFAULT_TIMEOUT, wt.cond, wt.err))

IsElementVisibleCall ==
    /\ wt.phase = "input" /\ wt.op = "is_element_visible"
    /\ WaitDone(is_element_visible(wt.timeout, DEFAULT_TIMEOUT, wt.cond, wt.err))

WaitForUrlContainsCall ==
    /\ wt.phase = "input" /\ wt.op = "wait_for_url_contains"
    /\ WaitDone(wait_for_url_contains(wt.timeout, DEFAULT_TIMEOUT, wt.cond, wt.err))

NextWait ==
    \/ FindElementCall
    \/ FindClickableCall
    \/ IsElementVisibleCall
    \/ WaitForUrlContainsCall

SpecWait == InitWait /\ [][NextWait]_vars

(***************************************************************************)
(* Properties of safe_click (SpecClick)                                    *)
(***************************************************************************)
ScDone == sc.phase = "done"
AllClicks(o) == \A i \in 1..sc.K : sc.clicks[i] = o
ScrollsOkBefore(k) == \A i \in 1..(k - 1) : sc.scrolls[i] = "ok"

\* C4, as claimed: with K >= 1 attempts, every one obstructed, safe_click
\* does not return normally: the last attempt's failure reaches the caller.
C4_AllObstructedPropagates ==
    (ScDone /\ sc.K >= 1 /\ AllClicks("intercepted")) => sc.res.ret = "raise"

\* C4, amended: with K >= 1 attempts, every one obstructed, safe_click makes
\* its K clicks and returns False; it raises only if a scroll-into-view call
\* raises, and then with that call's exception, never with the obstruction.
C4_AllObstructedReturnsFalse ==
    (ScDone /\ sc.K >= 1 /\ AllClicks("intercepted")) =>
        /\ sc.res.ret \in {"false", "raise"}
        /\ sc.res.ret = "raise" <=> \E i \in 1..sc.K : sc.scrolls[i] = "raise"
        /\ sc.res.ret = "raise" => sc.res.exc = "scroll"
        /\ sc.res.ret = "false" => sc.res.clicks = sc.K /\ sc.res.scrolls = sc.K

C4_Witness ==
    /\ ScDone /\ sc.K = 2 /\ AllClicks("intercepted")
    /\ \A i \in 1..sc.K : sc.scrolls[i] = "ok"
    /\ sc.res.ret = "false"

\* C5: with K >= 1 attempts, the first K-1 obstructed (each followed by a
\* scroll into view that is done) and the K-th done, safe_click returns True
\* after exactly K clicks and K-1 scrolls.
C5_SucceedsOnLastAttempt ==
    (/\ ScDone /\ sc.K >= 1
     /\ \A i \in 1..(sc.K - 1) : sc.clicks[i] = "intercepted"
     /\ sc.clicks[sc.K] = "ok"
     /\ ScrollsOkBefore(sc.K))
    => /\ sc.res.ret = "true"
       /\ sc.res.clicks = sc.K
       /\ sc.res.scrolls = sc.K - 1

C5_Witness ==
    /\ ScDone /\ sc.K = 3
    /\ sc.clicks = <<"intercepted", "intercepted", "ok">>
    /\ ScrollsOkBefore(sc.K)
    /\ sc.res.ret = "true" /\ sc.res.clicks = 3 /\ sc.res.scrolls = 2

(***************************************************************************)
(* Properties of the polling waits (SpecWait)                              *)
(***************************************************************************)
WtDone == wt.phase = "done"

\* the timeout the caller asked for: the override, or the default
RequestedTimeout == IF wt.timeout.some THEN wt.timeout.v ELSE DEFAULT_TIMEOUT

\* C9: is_element_visible and wait_for_url_contains, when the driver does
\* not fail, return True if the condition starts to hold before the timeout,
\* and return False, raising nothing, if it never holds.
C9_WaitsReturnBoolean ==
    (/\ WtDone /\ wt.op \in {"is_element_visible", "wait_for_url_contains"}
     /\ ~wt.err)
    => /\ (wt.cond.holds /\ wt.cond.at < RequestedTimeout) => wt.ret = "true"
       /\ ~wt.cond.holds => wt.ret = "false"

C9_Witness ==
    /\ WtDone /\ wt.op = "is_element_visible" /\ ~wt.err
    /\ wt.timeout = Override(2) /\ ~wt.cond.holds
    /\ wt.ret = "false"

(***************************************************************************)
(* Properties of a run (Spec)                                              *)
(***************************************************************************)
Cases == {"homepage", "qa"}

\* the verdict recorded under a key, "none" if there is none
VerdictOf(key) ==
    IF \E i \in DOMAIN test_results : test_results[i].name = key
    THEN test_results[CHOOSE i \in DOMAIN test_results : test_results[i].name = key].result
    ELSE "none"

\* run_tests is past its two calls of the cases
CasesOver == pc \in {"report", "teardown", "done", "raised"}

ViewRoleReturned == last.case = "qa" /\ last.name = "view_role"

\* C1, as claimed: whenever view_first_role has returned, on whatever path,
\* the context that was active when it was called is the active one.
C1_OriginalContextRestored ==
    ViewRoleReturned => last.post.current = last.pre.current

\* C2: in each case the steps run so far are a prefix of the declared list,
\* in order; a step that returned a falsy value or raised is the last one
\* run in its case, the case is then over and its verdict is FAILED.
C2_FailFastInOrder ==
    \A case \in Cases :
        LET ex == executed[case]
            steps == CaseSteps(case)
        IN  /\ Len(ex) <= Len(steps)
            /\ \A i \in 1..Len(ex) : ex[i].name = steps[i]
            /\ \A i \in 1..Len(ex) :
                   ex[i].ret # "true" =>
                       /\ i = Len(ex)
                       /\ pc # case
                       /\ VerdictOf(CaseKey(case)) = "FAILED"

C2_Witness ==
    /\ pc = "done"
    /\ Len(executed["homepage"]) = 2 /\ executed["homepage"][2].ret = "raise"
    /\ Len(executed["qa"]) = 3 /\ executed["qa"][3].ret = "false"
    /\ VerdictOf(HomepageKey) = "FAILED" /\ VerdictOf(QAKey) = "FAILED"

\* C3: driver.quit() is not called while a case runs or before the report;
\* once run_tests is left it has been called exactly once, and both cases
\* had finished by then, whatever their verdicts.
C3_QuitOnceAfterCases ==
    /\ quits <= 1
    /\ pc \in {"homepage", "qa", "report", "teardown"} => quits = 0
    /\ pc \in {"done", "raised"} =>
           /\ quits = 1
           /\ VerdictOf(HomepageKey) # "none"
           /\ VerdictOf(QAKey) # "none"

C3_Witness ==
    /\ pc = "done" /\ quits = 1
    /\ VerdictOf(HomepageKey) = "FAILED" /\ VerdictOf(QAKey) = "FAILED"
    /\ \E i \in 1..Len(executed["homepage"]) : executed["homepage"][i].ret = "raise"
    /\ last.case = "qa" /\ last.obs = "click_raised"

\* test_results at each moment: one entry per case that has finished, in
\* the order the cases ran, each key assigned exactly once, each value
\* PASSED or FAILED
OneVerdictPerCase ==
    /\ pc = "homepage" => test_results = <<>>
    /\ pc = "qa" => DictKeys(test_results) = <<HomepageKey>>
    /\ CasesOver => DictKeys(test_results) = <<HomepageKey, QAKey>>
    /\ \A i \in DOMAIN test_results :
           /\ test_results[i].result \in {"PASSED", "FAILED"}
           /\ writes[test_results[i].name] = 1
    /\ \A k \in {HomepageKey, QAKey} : VerdictOf(k) = "none" => writes[k] = 0

\* a step of the run only adds entries to test_results: those it holds stay
\* as they are
VerdictsKept ==
    /\ Len(test_results') >= Len(test_results)
    /\ \A i \in DOMAIN test_results : test_results'[i] = test_results[i]

\* C6: test_results holds one entry per case that has finished, in the
\* order the cases ran ('Homepage Test', then 'QA Jobs Test'); each key is
\* assigned exactly once and its entry never changes afterwards; each value
\* is PASSED or FAILED, never SKIPPED.
C6_OneVerdictPerCase == []OneVerdictPerCase /\ [][VerdictsKept]_vars

C6_Witness ==
    /\ pc = "done"
    /\ test_results = <<[name |-> HomepageKey, result |-> "FAILED"],
                        [name |-> QAKey, result |-> "PASSED"]>>

\* C7: a step that raised leaves its case FAILED like one that returned
\* False, the exception never leaves run_test_step, and once the cases are
\* over test_qa_jobs_filtering has run whatever test_homepage_loading gave.
C7_ExceptionIsFailure ==
    /\ pc # "teardown_raised"
    /\ \A case \in Cases : \A i \in 1..Len(executed[case]) :
           executed[case][i].ret \in {"raise", "false"} =>
               /\ VerdictOf(CaseKey(case)) = "FAILED"
               /\ i = Len(executed[case])
    /\ pc \in {"qa"} \cup {"report", "teardown", "done", "raised"} =>
           VerdictOf(HomepageKey) # "none"
    /\ CasesOver => Len(executed["qa"]) >= 1 /\ VerdictOf(QAKey) # "none"

C7_Witness ==
    /\ pc = "done"
    /\ Len(executed["homepage"]) = 2 /\ executed["homepage"][2].ret = "raise"
    /\ VerdictOf(HomepageKey) = "FAILED"
    /\ Len(executed["qa"]) = Len(QASteps) /\ VerdictOf(QAKey) = "PASSED"

MenuStepReturned ==
    last.case = "homepage" /\ last.name \in {"company_menu", "careers_menu"}

\* C8, as claimed: click_navigation_item never raises, returns True only if
\* a click on the target was done, and returns False when the target is not
\* clickable in time or every attempt of the click is obstructed.
C8_MenuActivationTruthful ==
    MenuStepReturned =>
        /\ last.ret # "raise"
        /\ last.ret = "true" => last.clicked = 1
        /\ last.obs \in {"not_clickable", "click_raised", "never_clicked"} =>
               last.ret = "false"

\* the environment was kind to a homepage step
GoodObs(rec) == rec.obs \in {"logo_visible", "clicked"}

\* C10: when test_homepage_loading is over, if every step it ran found the
\* page well (driver.get done and the logo visible, the menu click done) the
\* verdict is PASSED after all four steps; if the logo never became visible
\* during the navigate step the verdict is FAILED and navigate is the only
\* step that ran.
C10_HomepageScenario ==
    LET ex == executed["homepage"]
    IN  /\ (pc # "homepage" /\ \A i \in 1..Len(ex) : GoodObs(ex[i])) =>
               /\ VerdictOf(HomepageKey) = "PASSED"
               /\ Len(ex) = Len(HomepageSteps)
        /\ (Len(ex) >= 1 /\ ex[1].obs = "logo_never_visible") =>
               /\ Len(ex) = 1
               /\ ex[1].name = "navigate"
               /\ pc # "homepage"
               /\ VerdictOf(HomepageKey) = "FAILED"

C10_Witness ==
    /\ pc = "qa"
    /\ Len(executed["homepage"]) = Len(HomepageSteps)
    /\ \A i \in 1..Len(HomepageSteps) : GoodObs(executed["homepage"][i])
    /\ VerdictOf(HomepageKey) = "PASSED"

\* C11, as claimed: no page operation run as a test step lets an exception
\* out: whatever the driver does, the step's function returns True or False.
C11_NoStepRaises ==
    \A case \in Cases : \A i \in 1..Len(executed[case]) :
        executed[case][i].ret # "raise"

(***************************************************************************)
(* Provisioning (src/Node-count-automatic-k8s-resources.py).  SpecK8s: the *)
(* process main() runs, for every NODE_COUNT in -MaxNodeInput..MaxNodeInput*)
(* and every answer of the Kubernetes API.                                 *)
(***************************************************************************)
\* the bounds of max(1, min(node_count, 5))
MIN_NODE_COUNT == 1
MAX_NODE_COUNT == 5

Min(a, b) == IF a <= b THEN a ELSE b
Max(a, b) == IF a >= b THEN a ELSE b

\* a mutant of ClampNodeCount: the lower bound is not applied
ClampNodeCountUpperOnly(node_count) == Min(node_count, MAX_NODE_COUNT)

\* KubernetesTestController.__init__: max(1, min(node_count, 5))
ClampNodeCount(node_count) == Max(MIN_NODE_COUNT, Min(node_count, MAX_NODE_COUNT))

\* a create call: done, ApiException, or another exception (the connection)
CreateOutcomes == {"ok", "api_exception", "other_exception"}

\* the body of each resource, as far as the model reads it
ResourceBody(kind, node_count) ==
    CASE kind = "chrome_deployment" -> [name |-> "chrome", replicas |-> node_count]
      [] kind = "chrome_service" -> [name |-> "chrome", port |-> 4444]
      [] kind = "chrome_hpa" ->
             [name |-> "chrome-hpa", minReplicas |-> 1, maxReplicas |-> 5, cpu |-> 50]
      [] OTHER -> [name |-> "selenium-test", replicas |-> 1]

\* a mutant of ChromeCreates: the service is created before the deployment
ChromeCreatesServiceFirst == <<"chrome_service", "chrome_deployment", "chrome_hpa">>

\* deploy_chrome's create calls, in the order of its statements
ChromeCreates == <<"chrome_deployment", "chrome_service", "chrome_hpa">>

\* deploy_selenium_test's create call
SeleniumCreates == <<"selenium_test_deployment">>

\* a mutant of OnApiException: the error is logged and the method returns
OnApiExceptionReturn == "return"

\* `except ApiException as e: self.logger.error(..); sys.exit(1)`
OnApiException == "exit"

\* The try block of deploy_chrome / deploy_selenium_test: the create calls
\* of kinds from the i-th on, outs[i] being the API's answer to the i-th.
\* Gives the calls issued and how the method ended: "return", "exit"
\* (sys.exit(1)), or "raise" (an exception that is no ApiException).
RECURSIVE IssueCreates(_, _, _, _, _)
IssueCreates(kinds, outs, node_count, i, issued) ==
    IF i > Len(kinds) THEN [calls |-> issued, end |-> "return"]
    ELSE LET call == [kind |-> kinds[i], body |-> ResourceBody(kinds[i], node_count),
                      outcome |-> outs[i]]
             now == Append(issued, call)
         IN  CASE outs[i] = "ok" -> IssueCreates(kinds, outs, node_count, i + 1, now)
               [] outs[i] = "api_exception" -> [calls |-> now, end |-> OnApiException]
               [] OTHER -> [calls |-> now, end |-> "raise"]

\* deploy_chrome
deploy_chrome(node_count, outs) == IssueCreates(ChromeCreates, outs, node_count, 1, <<>>)

\* deploy_selenium_test
deploy_selenium_test(outs) == IssueCreates(SeleniumCreates, outs, 1, 1, <<>>)

\* how the process ends when a method ends with sys.exit(1) or an exception
\* nothing catches: both leave main() with exit status 1
EndPhase(end) == IF end = "exit" THEN "exited" ELSE "crashed"

K8Inputs ==
    [phase : {"start"}, n : (0 - MaxNodeInput)..MaxNodeInput, node_count : {0},
     calls : {<<>>}, exit_code : {0}]

InitK8s ==
    /\ NoRun
    /\ sc = [phase |-> "idle"]
    /\ wt = [phase |-> "idle"]
    /\ k8 \in K8Inputs

\* main(): KubernetesTestController(node_count): the clamp, then the
\* in-cluster configuration or, failing that, the local one
K8Construct ==
    /\ k8.phase = "start"
    /\ \E incluster \in CallOutcomes, kube \in CallOutcomes :
         k8' = IF incluster = "raise" /\ kube = "raise"
               THEN [k8 EXCEPT !.node_count = ClampNodeCount(k8.n),
                               !.phase = "crashed", !.exit_code = 1]
               ELSE [k8 EXCEPT !.node_count = ClampNodeCount(k8.n),
                               !.phase = "constructed"]
    /\ UNCHANGED <<runVars, sc, wt>>

\* deploy_resources: self.deploy_chrome()
K8DeployChrome ==
    /\ k8.phase = "constructed"
    /\ \E outs \in [1..Len(ChromeCreates) -> CreateOutcomes] :
         LET r == deploy_chrome(k8.node_count, outs)
         IN  k8' = IF r.end = "return"
                   THEN [k8 EXCEPT !.calls = @ \o r.calls, !.phase = "chrome_deployed"]
                   ELSE [k8 EXCEPT !.calls = @ \o r.calls, !.phase = EndPhase(r.end),
                                   !.exit_code = 1]
    /\ UNCHANGED <<runVars, sc, wt>>

\* deploy_resources: self.deploy_selenium_test(), and main() returns
K8DeploySeleniumTest ==
    /\ k8.phase = "chrome_deployed"
    /\ \E outs \in [1..Len(SeleniumCreates) -> CreateOutcomes] :
         LET r == deploy_selenium_test(outs)
         IN  k8' = IF r.end = "return"
                   THEN [k8 EXCEPT !.calls = @ \o r.calls, !.phase = "done"]
                   ELSE [k8 EXCEPT !.calls = @ \o r.calls, !.phase = EndPhase(r.end),
                                   !.exit_code = 1]
    /\ UNCHANGED <<runVars, sc, wt>>

NextK8s ==
    \/ K8Construct
    \/ K8DeployChrome
    \/ K8DeploySeleniumTest

SpecK8s == InitK8s /\ [][NextK8s]_vars

(***************************************************************************)
(* Properties of provisioning (SpecK8s)                                    *)
(***************************************************************************)
K8Constructed == k8.phase \notin {"idle", "start"}

CallKinds == [i \in DOMAIN k8.calls |-> k8.calls[i].kind]

\* C12: for every NODE_COUNT n the stored node_count is n when 1 <= n <= 5,
\* 1 below that and 5 above, so it is in 1..5; and the chrome deployment
\* that deploy_chrome creates asks for that many replicas.
C12_ReplicasClamped ==
    K8Constructed =>
        /\ k8.node_count \in 1..5
        /\ k8.n < 1 => k8.node_count = 1
        /\ k8.n > 5 => k8.node_count = 5
        /\ k8.n \in 1..5 => k8.node_count = k8.n
        /\ \A i \in DOMAIN k8.calls :
               k8.calls[i].kind = "chrome_deployment" =>
                   k8.calls[i].body.replicas = k8.node_count

C12_Witness ==
    /\ k8.phase = "done" /\ k8.n = 10 /\ k8.node_count = 5
    /\ k8.calls[1].kind = "chrome_deployment" /\ k8.calls[1].body.replicas = 5

\* C13: a create call that failed with ApiException is the last call the
\* process issues, the process has exited with status 1, and no kind of
\* resource is asked for twice.
C13_ApiErrorIsFatal ==
    K8Constructed =>
        /\ \A i \in DOMAIN k8.calls :
               k8.calls[i].outcome = "api_exception" =>
                   /\ i = Len(k8.calls)
                   /\ k8.phase = "exited"
                   /\ k8.exit_code = 1
        /\ \A i, j \in DOMAIN k8.calls : k8.calls[i].kind = k8.calls[j].kind => i = j
        /\ k8.phase = "exited" => k8.exit_code # 0

C13_Witness ==
    /\ k8.phase = "exited" /\ k8.exit_code = 1
    /\ Len(k8.calls) = 2
    /\ k8.calls[1].outcome = "ok" /\ k8.calls[2].outcome = "api_exception"

\* C18: the create calls issued so far are a prefix of chrome deployment,
\* chrome service, chrome autoscaler, selenium-test deployment; the
\* selenium-test deployment is asked for only after the three chrome
\* resources were created.
C18_CreateOrder ==
    LET order == <<"chrome_deployment", "chrome_service", "chrome_hpa",
                   "selenium_test_deployment">>
    IN  K8Constructed =>
          /\ Len(k8.calls) <= Len(order)
          /\ \A i \in DOMAIN k8.calls : k8.calls[i].kind = order[i]
          /\ \A i \in DOMAIN k8.calls :
                 k8.calls[i].kind = "selenium_test_deployment" =>
                     /\ i = 4
                     /\ \A j \in 1..3 : k8.calls[j].outcome = "ok"

C18_Witness ==
    /\ k8.phase = "done"
    /\ CallKinds = <<"chrome_deployment", "chrome_service", "chrome_hpa",
                     "selenium_test_deployment">>
    /\ \A i \in 1..4 : k8.calls[i].outcome = "ok"

\* C14: nothing of the report is logged while the cases run; once it is
\* logged it has one line per entry of test_results, in the mapping's order,
\* with the entry's name and verdict and the pass glyph exactly for PASSED;
\* driver.quit() is called only after that.
C14_ReportMatchesResults ==
    /\ pc \in {"homepage", "qa", "report"} => report = <<>>
    /\ pc \in {"teardown", "done", "raised"} =>
           /\ Len(report) = Len(test_results)
           /\ \A i \in DOMAIN report :
                  /\ report[i].name = test_results[i].name
                  /\ report[i].verdict = test_results[i].result
                  /\ report[i].glyph = "pass" <=> test_results[i].result = "PASSED"
    /\ quits >= 1 => Len(report) = 2
    /\ pc = "teardown" => quits = 0

C14_Witness ==
    /\ pc = "done" /\ quits = 1
    /\ report = <<[name |-> HomepageKey, verdict |-> "PASSED", glyph |-> "pass"],
                  [name |-> QAKey, verdict |-> "FAILED", glyph |-> "fail"]>>

\* C15: an exception of element.click() that is no obstruction leaves
\* safe_click only from the K-th attempt, and always does so from there; on
\* an earlier attempt it is swallowed and the next attempt is made.  With no
\* attempt obstructed, safe_click raises nothing before its K-th click.
C15_OtherErrorOnlyFromLastAttempt ==
    ScDone =>
        /\ sc.res.exc = "click" =>
               sc.K >= 1 /\ sc.res.clicks = sc.K /\ sc.clicks[sc.K] = "error"
        /\ (sc.K >= 1 /\ sc.res.clicks = sc.K /\ sc.clicks[sc.K] = "error") =>
               sc.res.ret = "raise" /\ sc.res.exc = "click"
        /\ \A i \in 1..(sc.K - 1) :
               (sc.clicks[i] = "error" /\ sc.res.clicks >= i) => sc.res.clicks > i
        /\ ((\A i \in 1..sc.K : sc.clicks[i] # "intercepted") /\ sc.res.ret = "raise") =>
               sc.res.clicks = sc.K

C15_Witness ==
    /\ ScDone /\ sc.K = 3 /\ AllClicks("error")
    /\ sc.res.ret = "raise" /\ sc.res.exc = "click" /\ sc.res.clicks = 3

FilterStepReturned == last.case = "qa" /\ last.name \in {"location", "department"}

\* C16, as claimed: select_location and select_department return True only
\* if the click on the dropdown control and then the click on the option
\* were both done, and return False when either target is not clickable in
\* time or either click is never done within its attempts.
C16_FilterSelectionTruthful ==
    FilterStepReturned =>
        /\ last.ret = "true" => last.obs = "both_clicked" /\ last.clicked = 2
        /\ last.obs # "both_clicked" => last.ret = "false"

\* C17: when view_first_role is called with a number of open contexts other
\* than 1 it returns False before safe_click is called, with the session as
\* it was: no click, no switch, no close.  A click it did was done with
\* exactly one context open.
C17_NoClickUnlessOneContext ==
    ViewRoleReturned =>
        /\ Cardinality(last.pre.windows) # 1 =>
               /\ last.ret = "false"
               /\ last.clicked = 0
               /\ last.post = last.pre
               /\ last.obs \in {"find_raised", "no_buttons", "handles_raised",
                                "multiple_contexts"}
        /\ last.clicked >= 1 => Cardinality(last.pre.windows) = 1

C17_Witness ==
    /\ ViewRoleReturned
    /\ Cardinality(last.pre.windows) = 2
    /\ last.obs = "multiple_contexts" /\ last.ret = "false"

NavigateReturned == last.case \in Cases /\ last.name = "navigate"

\* C19, as claimed: HomePage.navigate and CareersPage.navigate return True
\* only if the page's is-loaded signal was observed after driver.get.
C19_NavigateVerifiesLoad ==
    NavigateReturned => (last.ret = "true" => last.obs = "logo_visible")

\* C19, amended: HomePage.navigate returns True exactly when driver.get was
\* done and the logo was then seen; CareersPage.navigate looks for no
\* is-loaded signal and returns True exactly when driver.get did not raise.
C19_NavigateResults ==
    NavigateReturned =>
        /\ last.case = "homepage" => (last.ret = "true" <=> last.obs = "logo_visible")
        /\ last.case = "qa" => (last.ret = "true" <=> last.obs = "got")
        /\ last.ret \in {"true", "false"}

C19_Witness ==
    /\ last.case = "qa" /\ last.name = "navigate"
    /\ last.ret = "true" /\ last.obs = "got"
    /\ executed["homepage"][1].obs = "logo_never_visible"
    /\ executed["homepage"][1].ret = "false"

(***************************************************************************)
(* SpecTerm: a run of run_tests, or a call of safe_click, under the        *)
(* program's scheduling: it has one thread, and every driver call and      *)
(* every wait returns or raises, so a step that can be taken is taken.     *)
(***************************************************************************)
InitTerm == Init \/ InitClick

NextTerm == Next \/ SafeClickCall

SpecTerm == InitTerm /\ [][NextTerm]_vars /\ WF_vars(Next) /\ WF_vars(SafeClickCall)

\* run_tests is left: both verdicts are final, the report is logged and
\* driver.quit() was called
RunTerminated ==
    /\ pc \in {"done", "raised"}
    /\ \A k \in {HomepageKey, QAKey} : VerdictOf(k) \in {"PASSED", "FAILED"}
    /\ Len(report) = 2
    /\ quits = 1

\* C20: a run that has started ends: both cases get a verdict PASSED or
\* FAILED, the report is logged and the session is closed.  A call of
\* safe_click ends too, after at most retry_attempts clicks, and with
\* retry_attempts 0 it returns False without a click.
C20_Terminates ==
    /\ (pc = "homepage") ~> RunTerminated
    /\ (sc.phase = "input") ~> ScDone
    /\ [](ScDone => /\ sc.res.clicks <= sc.K
                    /\ sc.K = 0 => (sc.res.ret = "false" /\ sc.res.clicks = 0))

C20_Witness == RunTerminated /\ pc = "done" /\ VerdictOf(QAKey) = "PASSED"

\* C21, as claimed: whenever view_first_role has returned, True or False,
\* the open contexts are those that were open when it was called: a context
\* the click opened has been closed, and the original one is still open.
C21_ContextsAsBefore ==
    ViewRoleReturned =>
        /\ last.post.windows = last.pre.windows
        /\ last.pre.current \in last.post.windows

\* C22, as claimed: find_element, find_clickable, is_element_visible and
\* wait_for_url_contains wait for the caller's override whenever one is
\* given, 0 included, and for the default of 20 only when none is given.
C22_OverrideIsEffective ==
    WtDone => wt.effective = RequestedTimeout

====
